---- MODULE Spec2Model ----
(***************************************************************************)
(* A model of cli_notes/app.py: the NotesApp main screen, its three pushed *)
(* screens (NewNoteScreen, NewFolderScreen, EditNoteScreen) and the        *)
(* directory tree they mutate.                                             *)
(*                                                                         *)
(* Names and file contents are sequences of one-character strings, so      *)
(* that str.strip, str.endswith, slicing and pathlib's "/" are computed.   *)
(* A path is the sequence of its components from "/"; it may hold ".."     *)
(* components (pathlib does not collapse them), which the filesystem       *)
(* resolves when the path is used.                                         *)
(* The filesystem is fault free: an operation fails only for the reasons   *)
(* POSIX gives for the state of the tree (ENOENT, ENOTDIR, EISDIR, EEXIST).*)
(* An exception that leaves a handler uncaught ends the application.       *)
(* The content pane (#viewer) is not part of the state: the handlers only  *)
(* replace it; what show_note can notify is modelled.                      *)
(***************************************************************************)
EXTENDS Integers, Sequences, FiniteSets, TLC

VARIABLES
    fs,            \* the filesystem: canonical path -> [kind, content]
    cursor_node,   \* tree.cursor_node: <<>> (None) or <<path>>
    current_file,  \* NotesApp.current_file: <<>> (None) or <<path>>
    screen_stack,  \* screens pushed over the main screen, top last
    phase,         \* "init" before NotesApp(), "running", "crashed"
    last,          \* the handler that ran last and its outcome
    notified       \* severities passed to notify() by that handler, in order

vars == <<fs, cursor_node, current_file, screen_stack, phase,
          last, notified>>

---------------------------------------------------------------------------
(* Bounds of the model.                                                    *)

\* entries that may exist besides "/", the home directory and the notes root
MaxEntries == 2
\* screens that may be pushed over the main screen
MaxScreens == 2

---------------------------------------------------------------------------
(* Optional values.                                                        *)

None == <<>>
Some(x) == <<x>>
Get(o) == o[1]

---------------------------------------------------------------------------
(* Strings.                                                                *)

Whitespace == {" ", "\t"}

RECURSIVE LStrip(_)
LStrip(s) ==
    IF s # <<>> /\ Head(s) \in Whitespace THEN LStrip(Tail(s)) ELSE s

RECURSIVE RStrip(_)
RStrip(s) ==
    IF s # <<>> /\ s[Len(s)] \in Whitespace
    THEN RStrip(SubSeq(s, 1, Len(s) - 1))
    ELSE s

\* str.strip()
strip(s) == RStrip(LStrip(s))

\* str.endswith(suffix)
endswith(s, suffix) ==
    /\ Len(s) >= Len(suffix)
    /\ SubSeq(s, Len(s) - Len(suffix) + 1, Len(s)) = suffix

MD == <<".", "m", "d">>
DOTDOT == <<".", ".">>

\* str.rfind("."), 1-based, 0 when there is none
RFindDot(s) ==
    LET dots == {i \in 1..Len(s) : s[i] = "."}
    IN  IF dots = {} THEN 0 ELSE CHOOSE i \in dots : \A j \in dots : j <= i

---------------------------------------------------------------------------
(* Paths (pathlib.PurePosixPath).                                          *)

RECURSIVE SplitAcc(_, _, _)
SplitAcc(s, cur, acc) ==
    IF s = <<>>
    THEN IF cur = <<>> THEN acc ELSE Append(acc, cur)
    ELSE IF Head(s) = "/"
         THEN SplitAcc(Tail(s), <<>>, IF cur = <<>> THEN acc ELSE Append(acc, cur))
         ELSE SplitAcc(Tail(s), Append(cur, Head(s)), acc)

\* the components of a string given to pathlib: "//" and "." are dropped,
\* ".." is kept
Parts(s) == SelectSeq(SplitAcc(s, <<>>, <<>>), LAMBDA c : c # <<".">>)

\* parent / name: an absolute name replaces the parent
PathJoin(parent, name) ==
    IF name # <<>> /\ Head(name) = "/" THEN Parts(name) ELSE parent \o Parts(name)

\* Path.parent (lexical; the parent of "/" is "/")
PathParent(p) == IF p = <<>> THEN p ELSE SubSeq(p, 1, Len(p) - 1)

\* Path.name
PathName(p) == IF p = <<>> THEN <<>> ELSE p[Len(p)]

\* Path.suffix
PathSuffix(p) ==
    LET name == PathName(p)
        i == RFindDot(name)
    IN  IF 1 < i /\ i < Len(name) THEN SubSeq(name, i, Len(name)) ELSE <<>>

IsPrefix(p, q) == Len(p) <= Len(q) /\ SubSeq(q, 1, Len(p)) = p

HOME == << <<"h">> >>

\* Path.home() / "notes"
notes_dir == PathJoin(HOME, <<"n", "o", "t", "e", "s">>)

---------------------------------------------------------------------------
(* The filesystem.                                                         *)

Dir == [kind |-> "dir", content |-> <<>>]
File(c) == [kind |-> "file", content |-> c]

\* Resolution of a path by the kernel: every component is looked up in a
\* directory; ".." goes to the parent.  The last component need not exist.
RECURSIVE Walk(_, _, _)
Walk(f, cur, rest) ==
    IF rest = <<>> THEN [err |-> "ok", path |-> cur]
    ELSE IF cur \notin DOMAIN f THEN [err |-> "ENOENT", path |-> cur]
    ELSE IF f[cur].kind # "dir" THEN [err |-> "ENOTDIR", path |-> cur]
    ELSE IF Head(rest) = DOTDOT THEN Walk(f, PathParent(cur), Tail(rest))
    ELSE Walk(f, Append(cur, Head(rest)), Tail(rest))

Resolve(f, p) == Walk(f, <<>>, p)

\* Path.exists(), Path.is_file(), Path.is_dir()
exists(f, p) ==
    LET r == Resolve(f, p) IN r.err = "ok" /\ r.path \in DOMAIN f
is_file(f, p) ==
    LET r == Resolve(f, p)
    IN  r.err = "ok" /\ r.path \in DOMAIN f /\ f[r.path].kind = "file"
is_dir(f, p) ==
    LET r == Resolve(f, p)
    IN  r.err = "ok" /\ r.path \in DOMAIN f /\ f[r.path].kind = "dir"

\* the entries directly inside a canonical directory path
Children(f, d) == {q \in DOMAIN f : Len(q) = Len(d) + 1 /\ PathParent(q) = d}

\* any(Path.iterdir())
HasChildren_Never(f, p) == FALSE
HasChildren(f, p) == Children(f, Resolve(f, p).path) # {}

Put(f, p, e) == [q \in DOMAIN f \cup {p} |-> IF q = p THEN e ELSE f[q]]
Drop(f, p) == [q \in DOMAIN f \ {p} |-> f[q]]

\* text mode with newline=None, reading: "\r\n" and "\r" become "\n"
RECURSIVE universal_newlines(_)
universal_newlines(s) ==
    IF s = <<>> THEN <<>>
    ELSE IF Head(s) = "\r"
         THEN IF Len(s) > 1 /\ s[2] = "\n"
              THEN <<"\n">> \o universal_newlines(Tail(Tail(s)))
              ELSE <<"\n">> \o universal_newlines(Tail(s))
         ELSE <<Head(s)>> \o universal_newlines(Tail(s))

\* Path.read_text(): the content, or an exception
read_text(f, p) ==
    IF is_file(f, p)
    THEN [ok |-> TRUE,
          content |-> universal_newlines(f[Resolve(f, p).path].content)]
    ELSE [ok |-> FALSE, content |-> <<>>]

\* Path.write_text(content): open(path, "w") creates or truncates the file
\* ("\n" is written as os.linesep, which is "\n" itself on POSIX)
write_text_Append(f, p, c) ==
    LET r == Resolve(f, p)
    IN  IF r.err # "ok" THEN [ok |-> FALSE, fs |-> f]
        ELSE IF r.path \in DOMAIN f /\ f[r.path].kind = "dir"
             THEN [ok |-> FALSE, fs |-> f]
        ELSE IF r.path \in DOMAIN f
             THEN [ok |-> TRUE,
                   fs |-> Put(f, r.path, File(f[r.path].content \o c))]
        ELSE [ok |-> TRUE, fs |-> Put(f, r.path, File(c))]
write_text(f, p, c) ==
    LET r == Resolve(f, p)
    IN  IF r.err # "ok" THEN [ok |-> FALSE, fs |-> f]
        ELSE IF r.path \in DOMAIN f /\ f[r.path].kind = "dir"
             THEN [ok |-> FALSE, fs |-> f]
        ELSE [ok |-> TRUE, fs |-> Put(f, r.path, File(c))]

\* os.mkdir(path)
os_mkdir(f, p) ==
    LET r == Resolve(f, p)
    IN  IF r.err # "ok" THEN [err |-> r.err, fs |-> f]
        ELSE IF r.path \in DOMAIN f THEN [err |-> "EEXIST", fs |-> f]
        ELSE [err |-> "ok", fs |-> Put(f, r.path, Dir)]

\* Path.mkdir(exist_ok=True)
mkdir_exist_ok(f, p) ==
    LET r == os_mkdir(f, p)
    IN  IF r.err = "ok" THEN [ok |-> TRUE, fs |-> r.fs]
        ELSE IF r.err # "ENOENT" /\ is_dir(f, p) THEN [ok |-> TRUE, fs |-> f]
        ELSE [ok |-> FALSE, fs |-> f]

\* Path.mkdir(parents=True, exist_ok=True)
RECURSIVE mkdir_parents(_, _)
mkdir_parents_NoExistOk(f, p) ==
    LET r == os_mkdir(f, p)
    IN  IF r.err = "ok" THEN [ok |-> TRUE, fs |-> r.fs]
        ELSE [ok |-> FALSE, fs |-> f]
mkdir_parents(f, p) ==
    LET r == os_mkdir(f, p)
    IN  IF r.err = "ok" THEN [ok |-> TRUE, fs |-> r.fs]
        ELSE IF r.err = "ENOENT"
             THEN IF PathParent(p) = p THEN [ok |-> FALSE, fs |-> f]
                  ELSE LET up == mkdir_parents(f, PathParent(p))
                       IN  IF ~up.ok THEN up ELSE mkdir_exist_ok(up.fs, p)
        ELSE IF is_dir(f, p) THEN [ok |-> TRUE, fs |-> f]
        ELSE [ok |-> FALSE, fs |-> f]

\* the entries counted against MaxEntries
Fixed == {<<>>, HOME, notes_dir}
Entries(f) == DOMAIN f \ Fixed

---------------------------------------------------------------------------
(* What the user may type.                                                 *)

\* values of the Input widgets when save or cancel is pressed
InputNames ==
    { <<>>,
      <<" ">>,
      <<"a">>,
      <<" ", "a", "\t">>,
      <<"a", ".", "m", "d">> }

\* texts the TextArea may hold besides the one it was opened with
EditTexts == { <<"x">> }

---------------------------------------------------------------------------
(* NotesApp.__init__ and the directories it may find.                      *)

WelcomeName == <<"W", "e", "l", "c", "o", "m", "e", ".", "m", "d">>
WelcomeText == <<"# Welcome to CLI Notes!\n", "Happy note-taking!\n">>

Base == [p \in {<<>>, HOME} |-> Dir]

\* the home directory before the application starts: no notes directory,
\* an empty one, one holding a file that is not a note
InitialLayouts ==
    { Base,
      Put(Base, notes_dir, Dir),
      Put(Put(Base, notes_dir, Dir), Append(notes_dir, <<"t">>), File(<<"x">>)) }

\* DirectoryTree(self.notes_dir): the nodes the tree shows are the entries
\* under the root.  (A node whose entry another process has removed is
\* reached by moving the cursor first and removing the entry after.)
Nodes(f) == [p \in {q \in DOMAIN f : IsPrefix(notes_dir, q)} |-> f[p].kind]

RECURSIVE NearestNode(_, _)
NearestNode(t, p) ==
    IF p \in DOMAIN t THEN Some(p)
    ELSE IF p = <<>> THEN None
    ELSE NearestNode(t, PathParent(p))

\* tree.reload(): the widget, not the application, decides where the cursor
\* is afterwards.  It keeps the highlighted path, falling back to its nearest
\* surviving ancestor, or it resets the cursor to no node.
ReloadCursor(t, c) ==
    IF c = None THEN {None} ELSE {None, NearestNode(t, Get(c))}

Step(op, res, arg) == [op |-> op, res |-> res, arg |-> arg]

Init ==
    /\ fs \in InitialLayouts
    /\ cursor_node = None
    /\ current_file = None
    /\ screen_stack = << >>
    /\ phase = "init"
    /\ last = Step("none", "none", <<>>)
    /\ notified = << >>

\* An exception leaves the handler: the application ends, and what it held
\* in memory ends with it.  The filesystem is what the handler left.
Raise(op, arg, f) ==
    /\ phase' = "crashed"
    /\ fs' = f
    /\ last' = Step(op, "raised", arg)
    /\ notified' = << >>
    /\ cursor_node' = None
    /\ current_file' = None
    /\ screen_stack' = << >>

NotesApp_init ==
    /\ phase = "init"
    /\ LET made == mkdir_exist_ok(fs, notes_dir)
           seeded == IF HasChildren(made.fs, notes_dir)
                     THEN made.fs
                     ELSE write_text(made.fs, Append(notes_dir, WelcomeName),
                                     WelcomeText).fs
       IN  IF ~made.ok
           THEN Raise("init", <<>>, fs)
           ELSE /\ fs' = seeded
                /\ current_file' = None
                /\ phase' = "running"
                /\ last' = Step("init", "ok", <<>>)
                /\ notified' = << >>
                /\ UNCHANGED <<cursor_node, screen_stack>>

---------------------------------------------------------------------------
(* The main screen.                                                        *)

Screen(kind, path, original) ==
    [kind |-> kind, path |-> path, original_content |-> original]

\* App.query_one searches the screen on top of the stack: "#tree" and
\* "#viewer" are found only while no screen is pushed
MainOnTop(stack) == stack = << >>

\* show_note: the Markdown widget replaces the viewer, or the error is notified
show_note(f, stack, note_path) ==
    IF read_text(f, note_path).ok /\ MainOnTop(stack) THEN << >> ELSE <<"error">>

\* refresh_tree: tree.reload()
refresh_tree(f) ==
    cursor_node' \in ReloadCursor(Nodes(f), cursor_node)

\* the user moves the tree cursor to a node of the tree
CursorMove ==
    /\ phase = "running"
    /\ MainOnTop(screen_stack)
    /\ \E p \in DOMAIN Nodes(fs) : cursor_node' = Some(p)
    /\ last' = Step("cursor", "moved", <<>>)
    /\ notified' = << >>
    /\ UNCHANGED <<fs, current_file, screen_stack, phase>>

\* "Only show markdown files"
IsMarkdown(file_path) == PathSuffix(file_path) = MD

\* the user selects a file node of the tree
on_directory_tree_file_selected ==
    /\ phase = "running"
    /\ MainOnTop(screen_stack)
    /\ \E file_path \in {p \in DOMAIN Nodes(fs) : Nodes(fs)[p] = "file"} :
        /\ cursor_node' = Some(file_path)
        /\ IF IsMarkdown(file_path)
           THEN LET shown == show_note(fs, screen_stack, file_path)
                IN  /\ current_file' = Some(file_path)
                    /\ notified' = shown
                    /\ last' = Step("file_selected", "shown", <<>>)
           ELSE /\ notified' = << >>
                /\ last' = Step("file_selected", "ignored", <<>>)
                /\ UNCHANGED current_file
    /\ UNCHANGED <<fs, screen_stack, phase>>

\* tree.cursor_node.data.path if tree.cursor_node ... else self.notes_dir
selected_path(c) == IF c # None THEN Get(c) ELSE notes_dir

\* action_new_note: "If selected path is a file, use its parent directory"
NewNoteParentDir(f, c) ==
    IF is_file(f, selected_path(c))
    THEN PathParent(selected_path(c))
    ELSE selected_path(c)

\* action_new_folder: the same resolution, written out again
NewFolderParentDir_NoFileCheck(f, c) == selected_path(c)
NewFolderParentDir(f, c) ==
    IF is_file(f, selected_path(c))
    THEN PathParent(selected_path(c))
    ELSE selected_path(c)

action_new_note ==
    /\ phase = "running"
    /\ IF ~MainOnTop(screen_stack)
       THEN Raise("new_note", <<>>, fs)
       ELSE /\ screen_stack' =
                Append(screen_stack,
                       Screen("NewNote", NewNoteParentDir(fs, cursor_node), <<>>))
            /\ last' = Step("new_note", "pushed", <<>>)
            /\ notified' = << >>
            /\ UNCHANGED <<fs, cursor_node, current_file, phase>>

action_new_folder ==
    /\ phase = "running"
    /\ IF ~MainOnTop(screen_stack)
       THEN Raise("new_folder", <<>>, fs)
       ELSE /\ screen_stack' =
                Append(screen_stack,
                       Screen("NewFolder", NewFolderParentDir(fs, cursor_node), <<>>))
            /\ last' = Step("new_folder", "pushed", <<>>)
            /\ notified' = << >>
            /\ UNCHANGED <<fs, cursor_node, current_file, phase>>

\* EditNoteScreen.__init__: note_path.read_text() if note_path.exists() else ""
OriginalContent(f, note_path) ==
    IF exists(f, note_path)
    THEN read_text(f, note_path)
    ELSE [ok |-> TRUE, content |-> <<>>]

\* the severity of "No note selected"
NoNoteSeverity_Error == "error"
NoNoteSeverity == "warning"

action_edit_note ==
    /\ phase = "running"
    /\ IF current_file = None
       THEN /\ notified' = <<NoNoteSeverity>>
            /\ last' = Step("edit_note", "no_note", <<>>)
            /\ UNCHANGED <<fs, cursor_node, current_file,
                           screen_stack, phase>>
       ELSE LET loaded == OriginalContent(fs, Get(current_file))
            IN  IF ~loaded.ok
                THEN Raise("edit_note", <<>>, fs)
                ELSE /\ Len(screen_stack) < MaxScreens
                     /\ screen_stack' =
                            Append(screen_stack,
                                   Screen("Edit", Get(current_file), loaded.content))
                     /\ last' = Step("edit_note", "pushed", <<>>)
                     /\ notified' = << >>
                     /\ UNCHANGED <<fs, cursor_node, current_file,
                                    phase>>

\* "Don't allow deleting the root notes directory"
IsRoot_Never(p) == FALSE
IsRoot(p) == p = notes_dir

\* the severity of "Cannot delete the root notes directory"
RootDeleteSeverity == "error"

\* "Only delete if empty"
FolderNotEmpty_Never(f, p) == FALSE
FolderNotEmpty_Always(f, p) == TRUE
FolderNotEmpty(f, p) == HasChildren(f, p)

\* what action_delete_note removes for a selected path: nothing for a
\* folder that is not empty or a path that is no file and no directory
Deleted(f, p) ==
    IF is_file(f, p) THEN Drop(f, p)
    ELSE IF is_dir(f, p) /\ ~FolderNotEmpty(f, p) THEN Drop(f, p)
    ELSE f

\* self.current_file after a delete that was not rejected
AfterDeleteCurrentFile_Kept(cf, p) == cf
AfterDeleteCurrentFile(cf, p) == None

action_delete_note ==
    /\ phase = "running"
    /\ IF ~MainOnTop(screen_stack)
       THEN Raise("delete_note", <<>>, fs)
       ELSE IF cursor_node = None
       THEN /\ notified' = <<"warning">>
            /\ last' = Step("delete_note", "no_item", <<>>)
            /\ UNCHANGED <<fs, cursor_node, current_file,
                           screen_stack, phase>>
       ELSE IF IsRoot(selected_path(cursor_node))
       THEN /\ notified' = <<RootDeleteSeverity>>
            /\ last' = Step("delete_note", "root", <<>>)
            /\ UNCHANGED <<fs, cursor_node, current_file,
                           screen_stack, phase>>
       ELSE IF /\ ~is_file(fs, selected_path(cursor_node))
               /\ is_dir(fs, selected_path(cursor_node))
               /\ FolderNotEmpty(fs, selected_path(cursor_node))
       THEN /\ notified' = <<"warning">>
            /\ last' = Step("delete_note", "not_empty", <<>>)
            /\ UNCHANGED <<fs, cursor_node, current_file,
                           screen_stack, phase>>
       ELSE LET p == selected_path(cursor_node)
            IN  /\ fs' = Deleted(fs, p)
                /\ notified' = IF exists(fs, p) THEN <<"information">> ELSE << >>
                /\ last' = Step("delete_note",
                                IF is_file(fs, p) THEN "file"
                                ELSE IF is_dir(fs, p) THEN "folder" ELSE "gone",
                                <<>>)
                /\ current_file' = AfterDeleteCurrentFile(current_file, p)
                /\ refresh_tree(Deleted(fs, p))
                /\ UNCHANGED <<screen_stack, phase>>

action_refresh ==
    /\ phase = "running"
    /\ IF ~MainOnTop(screen_stack)
       THEN Raise("refresh", <<>>, fs)
       ELSE /\ refresh_tree(fs)
            /\ notified' = <<"information">>
            /\ last' = Step("refresh", "ok", <<>>)
            /\ UNCHANGED <<fs, current_file, screen_stack, phase>>

---------------------------------------------------------------------------
(* The pushed screens.                                                     *)

Top(stack) == stack[Len(stack)]

\* self.dismiss(result): the screen on top is popped
Pop_Keep(stack) == stack
Pop(stack) == SubSeq(stack, 1, Len(stack) - 1)
TopIs(kind) == screen_stack # << >> /\ Top(screen_stack).kind = kind

\* NewNoteScreen.action_save: "Add .md extension if not present"
NoteFileName_AlwaysAppend(note_name) == note_name \o MD
NoteFileName(note_name) ==
    IF ~endswith(note_name, MD) THEN note_name \o MD ELSE note_name

\* f"# {note_name[:-3]}\n\nYour note content here...\n"
NoteTemplate(note_name) ==
    <<"#", " ">> \o SubSeq(note_name, 1, Len(note_name) - 3)
        \o <<"\n", "\n", "Your note content here...", "\n">>

\* the path NewNoteScreen.action_save writes and dismisses with
NotePath(parent_dir, value) == PathJoin(parent_dir, NoteFileName(strip(value)))

\* "if not note_name: return" / "if not folder_name: return"
NameIsEmpty_Unstripped(value) == value = <<>>
NameIsEmpty(value) == strip(value) = <<>>

\* self.current_file once handle_new_note has run
AfterNewNoteCurrentFile_Kept(cf, result) == cf
AfterNewNoteCurrentFile(cf, result) == Some(result)

\* NewNoteScreen.action_save with value in the Input, then handle_new_note
NewNoteScreen_save(value) ==
        LET parent_dir == Top(screen_stack).path
            note_path == NotePath(parent_dir, value)
            written == write_text(fs, note_path,
                                  NoteTemplate(NoteFileName(strip(value))))
            below == Pop(screen_stack)
            shown == show_note(written.fs, below, note_path)
        IN  IF NameIsEmpty(value)
            THEN /\ last' = Step("note_save", "empty", value)
                 /\ notified' = << >>
                 /\ UNCHANGED <<fs, cursor_node, current_file,
                                screen_stack, phase>>
            ELSE IF ~written.ok \/ ~MainOnTop(below)
            THEN Raise("note_save", value, written.fs)
            ELSE /\ Cardinality(Entries(written.fs)) <= MaxEntries
                 /\ fs' = written.fs
                 /\ screen_stack' = below
                 /\ refresh_tree(written.fs)
                 /\ current_file' = AfterNewNoteCurrentFile(current_file, note_path)
                 /\ notified' = <<"information">> \o shown
                 /\ last' = Step("note_save", "created", value)
                 /\ UNCHANGED phase

NewNoteScreen_action_save ==
    /\ phase = "running"
    /\ TopIs("NewNote")
    /\ \E value \in InputNames : NewNoteScreen_save(value)

NewNoteScreen_action_cancel ==
    /\ phase = "running"
    /\ TopIs("NewNote")
    /\ screen_stack' = Pop(screen_stack)
    /\ last' = Step("note_cancel", "dismissed", <<>>)
    /\ notified' = << >>
    /\ UNCHANGED <<fs, cursor_node, current_file, phase>>

\* the path NewFolderScreen.action_save creates and dismisses with
FolderPath_Unstripped(parent_dir, value) == PathJoin(parent_dir, value)
FolderPath(parent_dir, value) == PathJoin(parent_dir, strip(value))

\* NewFolderScreen.action_save with value in the Input, then
\* handle_new_folder
NewFolderScreen_save(value) ==
        LET parent_dir == Top(screen_stack).path
            folder_path == FolderPath(parent_dir, value)
            made == mkdir_parents(fs, folder_path)
            below == Pop(screen_stack)
        IN  IF NameIsEmpty(value)
            THEN /\ last' = Step("folder_save", "empty", value)
                 /\ notified' = << >>
                 /\ UNCHANGED <<fs, cursor_node, current_file,
                                screen_stack, phase>>
            ELSE IF ~made.ok \/ ~MainOnTop(below)
            THEN /\ Cardinality(Entries(made.fs)) <= MaxEntries
                 /\ Raise("folder_save", value, made.fs)
            ELSE /\ Cardinality(Entries(made.fs)) <= MaxEntries
                 /\ fs' = made.fs
                 /\ screen_stack' = below
                 /\ refresh_tree(made.fs)
                 /\ notified' = <<"information">>
                 /\ last' = Step("folder_save", "created", value)
                 /\ UNCHANGED <<current_file, phase>>

NewFolderScreen_action_save ==
    /\ phase = "running"
    /\ TopIs("NewFolder")
    /\ \E value \in InputNames : NewFolderScreen_save(value)

NewFolderScreen_action_cancel ==
    /\ phase = "running"
    /\ TopIs("NewFolder")
    /\ screen_stack' = Pop(screen_stack)
    /\ last' = Step("folder_cancel", "dismissed", <<>>)
    /\ notified' = << >>
    /\ UNCHANGED <<fs, cursor_node, current_file, phase>>

\* the texts the TextArea of an EditNoteScreen may hold when save is pressed
EditorTexts(screen) == EditTexts \cup {screen.original_content}

EditNoteScreen_action_save ==
    /\ phase = "running"
    /\ TopIs("Edit")
    /\ \E text \in EditorTexts(Top(screen_stack)) :
        LET note_path == Top(screen_stack).path
            written == write_text(fs, note_path, text)
            below == Pop(screen_stack)
            shown == show_note(written.fs, below, Get(current_file))
        IN  IF ~written.ok
            THEN Raise("edit_save", text, fs)
            ELSE /\ Cardinality(Entries(written.fs)) <= MaxEntries
                 /\ fs' = written.fs
                 /\ screen_stack' = below
                 /\ notified' = <<"information">> \o shown
                 /\ last' = Step("edit_save", "saved", text)
                 /\ UNCHANGED <<cursor_node, current_file, phase>>

EditNoteScreen_action_cancel ==
    /\ phase = "running"
    /\ TopIs("Edit")
    /\ screen_stack' = Pop(screen_stack)
    /\ last' = Step("edit_cancel", "dismissed", <<>>)
    /\ notified' = << >>
    /\ UNCHANGED <<fs, cursor_node, current_file, phase>>

---------------------------------------------------------------------------
(* The world outside the application.                                      *)

\* another process removes a file or an empty folder below the notes root
ExternalRemove ==
    /\ phase = "running"
    /\ \E p \in DOMAIN fs :
        /\ IsPrefix(notes_dir, p)
        /\ p # notes_dir
        /\ Children(fs, p) = {}
        /\ fs' = Drop(fs, p)
    /\ last' = Step("external", "removed", <<>>)
    /\ notified' = << >>
    /\ UNCHANGED <<cursor_node, current_file, screen_stack, phase>>

---------------------------------------------------------------------------

Next ==
    \/ NotesApp_init
    \/ CursorMove
    \/ on_directory_tree_file_selected
    \/ action_new_note
    \/ action_new_folder
    \/ action_edit_note
    \/ action_delete_note
    \/ action_refresh
    \/ NewNoteScreen_action_save
    \/ NewNoteScreen_action_cancel
    \/ NewFolderScreen_action_save
    \/ NewFolderScreen_action_cancel
    \/ EditNoteScreen_action_save
    \/ EditNoteScreen_action_cancel
    \/ ExternalRemove

Spec == Init /\ [][Next]_vars

\* The application started on a notes directory that holds one note whose
\* stored text has carriage returns (written by another program).
StoredTexts ==
    { <<"x">>,
      <<"\r">>,
      <<"x", "\r", "\n", "y">> }

StoredLayouts ==
    { Put(Put(Base, notes_dir, Dir),
          Append(notes_dir, <<"b", ".", "m", "d">>), File(t)) :
        t \in StoredTexts }

InitStored ==
    /\ fs \in StoredLayouts
    /\ cursor_node = None
    /\ current_file = None
    /\ screen_stack = << >>
    /\ phase = "init"
    /\ last = Step("none", "none", <<>>)
    /\ notified = << >>

SpecStored == InitStored /\ [][Next]_vars

\* The same application when the names typed are paths: a name with a ".."
\* segment and a separator, and an absolute one.
PathNames ==
    { <<".", ".", "/", "a">>,
      <<"/", "a">> }

NewNoteScreen_action_save_path ==
    /\ phase = "running"
    /\ TopIs("NewNote")
    /\ \E value \in PathNames : NewNoteScreen_save(value)

NewFolderScreen_action_save_path ==
    /\ phase = "running"
    /\ TopIs("NewFolder")
    /\ \E value \in PathNames : NewFolderScreen_save(value)

InitPaths ==
    /\ fs = Put(Base, notes_dir, Dir)
    /\ cursor_node = None
    /\ current_file = None
    /\ screen_stack = << >>
    /\ phase = "init"
    /\ last = Step("none", "none", <<>>)
    /\ notified = << >>

NextPaths ==
    \/ Next
    \/ NewNoteScreen_action_save_path
    \/ NewFolderScreen_action_save_path

SpecPaths == InitPaths /\ [][NextPaths]_vars

---------------------------------------------------------------------------
(* The vocabulary of the specification.                                    *)

\* WorkflowState: one of the four modes while at most one screen is pushed
WorkflowState ==
    IF phase # "running" THEN phase
    ELSE IF screen_stack = << >> THEN "Browsing"
    ELSE IF Len(screen_stack) > 1 THEN "Stacked"
    ELSE IF Top(screen_stack).kind = "NewNote" THEN "CreatingNote"
    ELSE IF Top(screen_stack).kind = "NewFolder" THEN "CreatingFolder"
    ELSE "Editing"

Selection == cursor_node
ActiveDocument == current_file

\* the same entries with the same contents, except that path p is gone
SameExcept(f, g, p) ==
    /\ DOMAIN g = DOMAIN f \ {p}
    /\ \A q \in DOMAIN g : g[q] = f[q]

---------------------------------------------------------------------------
(* Parent resolution.                                                      *)

\* the directory the specification resolves for a Selection; a selection
\* whose entry is gone is neither a folder nor a document and stands for
\* itself
CreationDirectory(f, sel) ==
    IF sel = None THEN notes_dir
    ELSE IF is_file(f, Get(sel)) THEN PathParent(Get(sel))
    ELSE Get(sel)

\* C1: starting new-note or new-folder from Browsing resolves the creation
\* directory to the selected folder when a folder is selected, to the
\* immediate parent of the selected document when a document is selected,
\* and to the notes root when nothing is selected; both triggers resolve
\* the same directory for the same Selection.  (Pushing the screen changes
\* neither the filesystem nor the Selection, so the state after the push
\* still shows what was resolved from.)
C1_ParentResolution ==
    (last.op \in {"new_note", "new_folder"} /\ last.res = "pushed") =>
        /\ WorkflowState = (IF last.op = "new_note" THEN "CreatingNote"
                            ELSE "CreatingFolder")
        /\ Selection = None => Top(screen_stack).path = notes_dir
        /\ (Selection # None /\ is_dir(fs, Get(Selection))) =>
                Top(screen_stack).path = Get(Selection)
        /\ (Selection # None /\ is_file(fs, Get(Selection))) =>
                Top(screen_stack).path = PathParent(Get(Selection))
        /\ Top(screen_stack).path = CreationDirectory(fs, Selection)

\* new-folder was started with a document selected below a folder of the root
C1_Witness ==
    /\ last.op = "new_folder"
    /\ last.res = "pushed"
    /\ Selection # None
    /\ is_file(fs, Get(Selection))
    /\ Top(screen_stack).path = PathParent(Get(Selection))
    /\ Top(screen_stack).path # notes_dir

---------------------------------------------------------------------------
(* Delete.                                                                 *)

\* C2: a delete from Browsing whose target is a folder (other than the
\* notes root) with at least one child removes nothing, notifies a warning
\* and leaves Selection, ActiveDocument and WorkflowState unchanged.
C2_NonEmptyFolderKept ==
    [][ ( /\ WorkflowState = "Browsing"
          /\ last'.op = "delete_note"
          /\ Selection # None
          /\ Get(Selection) # notes_dir
          /\ is_dir(fs, Get(Selection))
          /\ Children(fs, Get(Selection)) # {} )
        => ( /\ fs' = fs
             /\ notified' = <<"warning">>
             /\ Selection' = Selection
             /\ ActiveDocument' = ActiveDocument
             /\ WorkflowState' = "Browsing" ) ]_vars

\* delete was pressed on a folder that holds a child, with a document active
C2_Witness ==
    /\ last.op = "delete_note"
    /\ notified = <<"warning">>
    /\ Selection # None
    /\ Get(Selection) # notes_dir
    /\ is_dir(fs, Get(Selection))
    /\ Children(fs, Get(Selection)) # {}
    /\ ActiveDocument # None

C7_EmptyFolderDeleted ==
    [][ ( /\ WorkflowState = "Browsing"
          /\ last'.op = "delete_note"
          /\ Selection # None
          /\ Get(Selection) # notes_dir
          /\ is_dir(fs, Get(Selection))
          /\ Children(fs, Get(Selection)) = {} )
        => ( /\ SameExcept(fs, fs', Get(Selection))
             /\ ~exists(fs', Get(Selection)) ) ]_vars

\* an empty folder was deleted while another entry remained
C7_Witness ==
    /\ last.op = "delete_note"
    /\ last.res = "folder"
    /\ Entries(fs) # {}

\* C10 as stated: a delete with no Selection, or with the notes root
\* selected, is rejected with a warning, changes nothing, and the notes
\* root exists in every state.
C10_Original ==
    /\ [][ ( /\ WorkflowState = "Browsing"
             /\ last'.op = "delete_note"
             /\ (Selection = None \/ Selection = Some(notes_dir)) )
           => ( /\ notified' = <<"warning">>
                /\ fs' = fs
                /\ Selection' = Selection
                /\ ActiveDocument' = ActiveDocument
                /\ WorkflowState' = "Browsing" ) ]_vars
    /\ [](phase # "init" => is_dir(fs, notes_dir))

\* C10 amended: a delete from Browsing with no Selection is rejected with
\* a notification of severity warning, one with the notes root selected
\* with a notification of severity error; either changes nothing in the
\* filesystem, Selection, ActiveDocument or WorkflowState, and the notes
\* root exists in every state once the application has started.
C10_DeleteRejected ==
    /\ [][ ( /\ WorkflowState = "Browsing"
             /\ last'.op = "delete_note"
             /\ (Selection = None \/ Selection = Some(notes_dir)) )
           => ( /\ notified' = (IF Selection = None THEN <<"warning">>
                                ELSE <<"error">>)
                /\ fs' = fs
                /\ Selection' = Selection
                /\ ActiveDocument' = ActiveDocument
                /\ WorkflowState' = "Browsing" ) ]_vars
    /\ [](phase # "init" => is_dir(fs, notes_dir))

\* delete was pressed with the notes root selected
C10_Witness ==
    /\ last.op = "delete_note"
    /\ Selection = Some(notes_dir)
    /\ notified = <<"error">>
    /\ WorkflowState = "Browsing"

---------------------------------------------------------------------------
(* Refresh.                                                                *)

\* the handler that ran last reloaded the tree
Refreshed ==
    \/ last.op = "refresh" /\ last.res = "ok"
    \/ last.op \in {"note_save", "folder_save"} /\ last.res = "created"
    \/ last.op = "delete_note" /\ last.res \in {"file", "folder", "gone"}

\* C3: after any refresh (the refresh action, or the refresh that follows
\* a create or a delete), also when entries were removed outside the
\* application, ActiveDocument is none or refers to an existing document.
C3_ActiveDocumentConsistent ==
    (phase = "running" /\ Refreshed) =>
        (ActiveDocument = None \/ is_file(fs, Get(ActiveDocument)))

---------------------------------------------------------------------------
(* Create note.                                                            *)

\* the name the specification gives the document: ".md" is appended only
\* if the trimmed name does not end with it
DocumentName(value) ==
    IF endswith(strip(value), MD) THEN strip(value) ELSE strip(value) \o MD

\* the name without its extension
DocumentTitle(value) ==
    SubSeq(DocumentName(value), 1, Len(DocumentName(value)) - Len(MD))

\* "# <name without extension>\n\nYour note content here...\n"
DocumentBody(value) ==
    <<"#", " ">> \o DocumentTitle(value)
        \o <<"\n", "\n", "Your note content here...", "\n">>

\* P/<name>.md for the screen on top and the name typed
DocumentPath(value) == PathJoin(Top(screen_stack).path, DocumentName(value))

\* the entry of the filesystem that path names
DocumentEntry(value) == Resolve(fs, DocumentPath(value)).path

\* the write can succeed: the parent directory exists and no folder has
\* the document's path
CanWrite(f, p) == is_dir(f, PathParent(p)) /\ ~is_dir(f, p)

C5_AlreadyExists ==
    [][ ( /\ WorkflowState = "CreatingNote"
          /\ last'.op = "note_save"
          /\ strip(last'.arg) # <<>>
          /\ exists(fs, DocumentPath(last'.arg)) )
        => ( /\ fs' = fs
             /\ "error" \in {notified'[i] : i \in 1..Len(notified')}
             /\ ActiveDocument' = ActiveDocument
             /\ WorkflowState' = "Browsing" ) ]_vars

---------------------------------------------------------------------------
(* Empty names and cancel.                                                 *)

\* C8: confirming in CreatingNote or CreatingFolder with a name that is
\* empty after trimming does nothing: the filesystem is unchanged, nothing
\* is notified, the screen is not dismissed, Selection and ActiveDocument
\* are unchanged.
C8_EmptyNameNoOp ==
    [][ ( /\ WorkflowState \in {"CreatingNote", "CreatingFolder"}
          /\ last'.op \in {"note_save", "folder_save"}
          /\ strip(last'.arg) = <<>> )
        => ( /\ fs' = fs
             /\ notified' = << >>
             /\ WorkflowState' = WorkflowState
             /\ screen_stack' = screen_stack
             /\ Selection' = Selection
             /\ ActiveDocument' = ActiveDocument ) ]_vars

\* save was pressed in the new-folder screen with only whitespace typed
C8_Witness ==
    /\ last.op = "folder_save"
    /\ last.arg # <<>>
    /\ strip(last.arg) = <<>>
    /\ WorkflowState = "CreatingFolder"

\* C9: cancel from CreatingNote, CreatingFolder or Editing returns to
\* Browsing and leaves the filesystem, Selection and ActiveDocument
\* unchanged.  (The cancel handlers read no widget: what was typed is no
\* input of theirs.)
C9_CancelChangesNothing ==
    [][ ( /\ WorkflowState \in {"CreatingNote", "CreatingFolder", "Editing"}
          /\ last'.op \in {"note_cancel", "folder_cancel", "edit_cancel"} )
        => ( /\ WorkflowState' = "Browsing"
             /\ fs' = fs
             /\ Selection' = Selection
             /\ ActiveDocument' = ActiveDocument
             /\ notified' = << >> ) ]_vars

\* an edit of an existing document was cancelled
C9_Witness ==
    /\ last.op = "edit_cancel"
    /\ WorkflowState = "Browsing"
    /\ ActiveDocument # None
    /\ is_file(fs, Get(ActiveDocument))

---------------------------------------------------------------------------
(* Edit.                                                                   *)

\* C11: a start-edit trigger while ActiveDocument is none is rejected with
\* a warning notification: WorkflowState stays Browsing, the filesystem,
\* Selection and ActiveDocument are unchanged (no editor is constructed, so
\* nothing is read), and Editing is never entered without an
\* ActiveDocument.
C11_EditRejected ==
    /\ [][ ( /\ WorkflowState = "Browsing"
             /\ last'.op = "edit_note"
             /\ ActiveDocument = None )
           => ( /\ notified' = <<"warning">>
                /\ WorkflowState' = "Browsing"
                /\ screen_stack' = screen_stack
                /\ fs' = fs
                /\ Selection' = Selection
                /\ ActiveDocument' = None ) ]_vars
    /\ [](WorkflowState = "Editing" => ActiveDocument # None)

\* edit was pressed in Browsing with no active document while a document
\* was highlighted in the tree
C11_Witness ==
    /\ last.op = "edit_note"
    /\ last.res = "no_note"
    /\ WorkflowState = "Browsing"
    /\ ActiveDocument = None
    /\ Selection # None
    /\ is_file(fs, Get(Selection))

\* C12: confirming an edit with content c on an existing document p
\* overwrites it fully: reading p afterwards returns exactly c, a new edit
\* of p loads exactly c, every other entry is unchanged, ActiveDocument
\* still refers to p and WorkflowState is Browsing.
C12_EditRoundTrip ==
    [][ ( /\ WorkflowState = "Editing"
          /\ last'.op = "edit_save"
          /\ ActiveDocument # None
          /\ is_file(fs, Get(ActiveDocument)) )
        => ( /\ read_text(fs', Get(ActiveDocument)).ok
             /\ read_text(fs', Get(ActiveDocument)).content = last'.arg
             /\ OriginalContent(fs', Get(ActiveDocument)).content = last'.arg
             /\ DOMAIN fs' = DOMAIN fs
             /\ \A q \in DOMAIN fs \ {Resolve(fs, Get(ActiveDocument)).path} :
                    fs'[q] = fs[q]
             /\ ActiveDocument' = ActiveDocument
             /\ WorkflowState' = "Browsing"
             /\ notified' = <<"information">> ) ]_vars

\* a stored text with "\r\n" in it was loaded into the editor (as "\n")
\* and saved as the editor held it: the document reads as what was saved
C12_Witness ==
    /\ last.op = "edit_save"
    /\ last.res = "saved"
    /\ last.arg = <<"x", "\n", "y">>
    /\ WorkflowState = "Browsing"
    /\ ActiveDocument = Some(Append(notes_dir, <<"b", ".", "m", "d">>))
    /\ read_text(fs, Get(ActiveDocument)).content = last.arg

\* the severities the handler that ran last passed to notify()
Severities(n) == {n[i] : i \in 1..Len(n)}

\* C13: confirming an edit of a document that no longer exists (removed
\* outside the application after it became the ActiveDocument) fails: the
\* document is not created again, an error is notified, and the
\* application goes on (back in Browsing, the hierarchy refreshed).
C13_EditOfRemovedFails ==
    [][ ( /\ WorkflowState = "Editing"
          /\ last'.op = "edit_save"
          /\ ActiveDocument # None
          /\ ~exists(fs, Get(ActiveDocument)) )
        => ( /\ fs' = fs
             /\ ~exists(fs', Get(ActiveDocument))
             /\ "error" \in Severities(notified')
             /\ WorkflowState' = "Browsing" ) ]_vars

---------------------------------------------------------------------------
(* Errors.                                                                 *)

\* the filesystem operation of a confirm cannot succeed: the folder's path
\* is occupied by a document, or the directory the note goes into is gone
ConfirmFails ==
    \/ /\ WorkflowState = "CreatingFolder"
       /\ last'.op = "folder_save"
       /\ strip(last'.arg) # <<>>
       /\ is_file(fs, PathJoin(Top(screen_stack).path, strip(last'.arg)))
    \/ /\ WorkflowState = "CreatingNote"
       /\ last'.op = "note_save"
       /\ strip(last'.arg) # <<>>
       /\ ~is_dir(fs, Top(screen_stack).path)

\* C14: no error is fatal: a confirm whose filesystem operation fails
\* notifies an error, mutates nothing and returns to Browsing, and the
\* application never ends on an error.
C14_NoFatalError ==
    /\ [][ ConfirmFails
           => ( /\ "error" \in Severities(notified')
                /\ fs' = fs
                /\ WorkflowState' = "Browsing" ) ]_vars
    /\ [](phase # "crashed")

---------------------------------------------------------------------------
(* Containment.                                                            *)

\* a path with its ".." segments collapsed lexically
RECURSIVE Collapse(_, _)
Collapse(done, rest) ==
    IF rest = <<>> THEN done
    ELSE IF Head(rest) = DOTDOT THEN Collapse(PathParent(done), Tail(rest))
    ELSE Collapse(Append(done, Head(rest)), Tail(rest))

LexicallyInside(root, p) == IsPrefix(root, Collapse(<<>>, p))

\* C15: every path the workflow creates, for every accepted name (names
\* with path separators, ".." segments or an absolute path included), and
\* every path held as Selection or ActiveDocument lies lexically inside
\* the notes root: nothing exists outside the root but what was there
\* before the application started.
C15_PathsInsideRoot ==
    /\ \A q \in DOMAIN fs \ DOMAIN Base : IsPrefix(notes_dir, q)
    /\ Selection # None => LexicallyInside(notes_dir, Get(Selection))
    /\ ActiveDocument # None => LexicallyInside(notes_dir, Get(ActiveDocument))

---------------------------------------------------------------------------
(* Create folder.                                                          *)

\* P/<name> for the screen on top and the name typed
NamedFolder(value) == PathJoin(Top(screen_stack).path, strip(value))

\* C16: folder creation is idempotent: confirming create-folder with a
\* name whose path is already a folder succeeds without error, leaves the
\* filesystem (the folder's children included) as it is and adds no entry;
\* and after any successful create-folder, creating the same folder again
\* yields the same filesystem.
C16_FolderIdempotent ==
    [][ ( /\ WorkflowState = "CreatingFolder"
          /\ last'.op = "folder_save"
          /\ strip(last'.arg) # <<>> )
        => ( /\ is_dir(fs, NamedFolder(last'.arg))
                => ( /\ fs' = fs
                     /\ notified' = <<"information">>
                     /\ WorkflowState' = "Browsing"
                     /\ ActiveDocument' = ActiveDocument )
             /\ WorkflowState' = "Browsing"
                => ( /\ mkdir_parents(fs', NamedFolder(last'.arg)).ok
                     /\ mkdir_parents(fs', NamedFolder(last'.arg)).fs = fs' ) )
      ]_vars

\* create-folder was confirmed with the name of a folder that already held
\* a document: nothing was added and the document is still there
C16_Witness ==
    /\ last.op = "folder_save"
    /\ last.res = "created"
    /\ strip(last.arg) = <<"a">>
    /\ WorkflowState = "Browsing"
    /\ Entries(fs) = { Append(notes_dir, <<"a">>),
                       Append(Append(notes_dir, <<"a">>), <<"a", ".", "m", "d">>) }
    /\ is_file(fs, Append(Append(notes_dir, <<"a">>), <<"a", ".", "m", "d">>))

---------------------------------------------------------------------------
(* Start-up.                                                               *)

WelcomePath == Append(notes_dir, WelcomeName)

\* C17: after start-up the notes root exists; if the root was empty or was
\* just created it holds exactly one entry, a non-empty document named
\* Welcome.md, and nothing else changed; if the root was not empty,
\* start-up creates, changes and removes nothing.  The initial
\* WorkflowState is Browsing with ActiveDocument none.
C17_StartUp ==
    [][ (last'.op = "init" /\ phase' = "running")
        => ( /\ is_dir(fs', notes_dir)
             /\ (~exists(fs, notes_dir) \/ Children(fs, notes_dir) = {})
                => ( /\ Children(fs', notes_dir) = {WelcomePath}
                     /\ is_file(fs', WelcomePath)
                     /\ read_text(fs', WelcomePath).content # <<>>
                     /\ DOMAIN fs' = DOMAIN fs \cup {notes_dir, WelcomePath}
                     /\ \A q \in DOMAIN fs : fs'[q] = fs[q] )
             /\ (exists(fs, notes_dir) /\ Children(fs, notes_dir) # {})
                => fs' = fs
             /\ WorkflowState' = "Browsing"
             /\ ActiveDocument' = None
             /\ Selection' = None ) ]_vars

\* the application has started on a notes root that held a file: the file
\* is there as it was and no Welcome.md was added
C17_Witness ==
    /\ last.op = "init"
    /\ phase = "running"
    /\ Children(fs, notes_dir) = {Append(notes_dir, <<"t">>)}
    /\ read_text(fs, Append(notes_dir, <<"t">>)).content = <<"x">>
    /\ WorkflowState = "Browsing"

---------------------------------------------------------------------------
(* Delete and the active document.                                         *)

\* the delete removes the selected entry: a document, or an empty folder
\* other than the root
DeleteSucceeds ==
    /\ WorkflowState = "Browsing"
    /\ last'.op = "delete_note"
    /\ Selection # None
    /\ Get(Selection) # notes_dir
    /\ \/ is_file(fs, Get(Selection))
       \/ is_dir(fs, Get(Selection)) /\ Children(fs, Get(Selection)) = {}

\* C18: a successful delete clears ActiveDocument only when ActiveDocument
\* referenced the deleted path: deleting another document, or an empty
\* folder, while a document that still exists is the ActiveDocument leaves
\* ActiveDocument unchanged.
C18_ActiveDocumentKept ==
    [][ ( /\ DeleteSucceeds
          /\ ActiveDocument # None
          /\ is_file(fs, Get(ActiveDocument))
          /\ Resolve(fs, Get(ActiveDocument)).path
                # Resolve(fs, Get(Selection)).path )
        => ActiveDocument' = ActiveDocument ]_vars

---------------------------------------------------------------------------
(* Create folder: the outcome.                                             *)

\* neither the path nor one of its ancestors is a document
NoDocumentOnPath(f, p) == \A i \in 1..Len(p) : ~is_file(f, SubSeq(p, 1, i))

---------------------------------------------------------------------------
(* Modality.                                                               *)

\* the triggers of the main screen
Triggers == {"new_note", "new_folder", "edit_note", "delete_note", "refresh"}

\* C20: the workflow is modal: WorkflowState is always exactly one of
\* Browsing, CreatingNote, CreatingFolder and Editing, starting at
\* Browsing; the triggers start-new-note, start-new-folder, start-edit,
\* delete and refresh take effect only in Browsing: pressed while an
\* interaction is pending they change nothing, so at most one interaction
\* is pending at a time.
C20_Modal ==
    /\ [](phase = "running" =>
            /\ WorkflowState \in {"Browsing", "CreatingNote",
                                  "CreatingFolder", "Editing"}
            /\ Len(screen_stack) <= 1)
    /\ [][ last'.op = "init" => WorkflowState' \in {"Browsing", "crashed"} ]_vars
    /\ [][ (phase = "running" /\ WorkflowState # "Browsing"
                /\ last'.op \in Triggers)
           => ( /\ WorkflowState' = WorkflowState
                /\ screen_stack' = screen_stack
                /\ fs' = fs
                /\ Selection' = Selection
                /\ ActiveDocument' = ActiveDocument ) ]_vars

====
